---- MODULE Spec2Model ----
(***************************************************************************)
(* Model of the Plot Mission tutorial of RCAIDE                            *)
(* (docs/source/tutorials/Optimize/Tutorial_13_Plot_Mission.ipynb) and of  *)
(* the two tutorial index pages (missions.rst, optimization.rst).          *)
(*                                                                         *)
(* plot_mission(nexus) is a straight-line function: it binds the local     *)
(* `results` to nexus.results.base, passes it to three plotting routines   *)
(* of RCAIDE.Library.Plots and returns.  The plotting routines are         *)
(* external: an invocation may return any value, may raise any failure,    *)
(* and may change the results object or rebind nexus.results.base.         *)
(*                                                                         *)
(* An optional value is a sequence of length at most one: <<>> is "absent" *)
(* (an unbound local, a missing attribute, Python's None), <<v>> is v.     *)
(***************************************************************************)
EXTENDS Integers, Sequences, FiniteSets, TLC

\* ---------------------------------------------------------------- bounds
MaxCalls    == 2    \* calls of plot_mission in one behaviour
NumObjs     == 2    \* distinct results objects
NumFailures == 2    \* distinct failures a plotting routine may raise
NumFigures  == 1    \* distinct non-None values a plotting routine may return

Objs     == 1..NumObjs
Contents == BOOLEAN   \* a results object's content: as set up, or changed
Failures == {<<"PlotError", e>> : e \in 1..NumFailures}
RetVals  == {<<>>} \cup {<<f>> : f \in 1..NumFigures}

None == <<>>
AttributeError == <<"AttributeError">>

VARIABLES
    pc,          \* position of the current call of plot_mission
    nexus,       \* the argument: [base |-> optional object], nexus.results.base
    heap,        \* content of every results object
    results,     \* the local variable `results` (optional object)
    log,         \* invocations made by the current call: [routine, arg]
    rets,        \* the values the plotting routines returned to the current call
    exc,         \* the failure the current call ended with (optional)
    retval,      \* the value the current call returned (optional; the value is optional too)
    fault,       \* the first failing step of the current call: [step, err] (optional)
    reads,       \* evaluations of nexus.results.base by the current call
    entry_base,  \* nexus.results.base when the current call was entered
    history,     \* one record per finished call: [trace, outcome]
    invocations, \* routine names invoked since the start, over all calls
    page,        \* the tutorial index page a reader has open (0: none)
    target,      \* the path the link followed last leads to (optional)
    visited      \* the links of the open page followed so far

callvars == <<pc, nexus, heap, results, log, rets, exc, retval, fault, reads,
              entry_base, history, invocations>>
sitevars == <<page, target, visited>>
vars == <<callvars, sitevars>>

Routines(l) == [i \in 1..Len(l) |-> l[i].routine]

Running == pc \in {"read", "aero", "drag", "alt", "ret"}
Ended   == pc \in {"done", "raised"}

\* ------------------------------------------------------------ plot_mission

\* Mutant: the failure is caught and another one is raised in its place.
OnRaiseReplaced(e, next) == [pc |-> "raised", exc |-> <<AttributeError>>]

\* Mutant: the failure is caught and the function carries on (try/except: pass).
OnRaiseSwallowed(e, next) == [pc |-> next, exc |-> <<>>]

\* A failure raised by a plotting routine meets no try/except in
\* plot_mission: it leaves the function at once, unchanged.
OnRaise(e, next) == [pc |-> "raised", exc |-> <<e>>]

\* Mutant: `return plot_altitude_sfc_weight(results)`, the last value leaks out.
ReturnLast(vals) == IF vals = <<>> THEN None ELSE vals[Len(vals)]

\* `return` without an expression yields None whatever was computed before.
ReturnValue(vals) == None

\* What an external plotting routine may do to the world while it runs.
Effects(arg) ==
    {[nexus |-> n, heap |-> h] :
        n \in {nexus} \cup {[base |-> <<o>>] : o \in Objs},
        h \in {heap, [heap EXCEPT ![arg] = ~@]}}

\* What an external plotting routine may answer.
Outcomes ==
    {[kind |-> "return", val |-> v, err |-> AttributeError] : v \in RetVals}
    \cup {[kind |-> "raise", val |-> None, err |-> e] : e \in Failures}

Record(newpc, newlog) ==
    IF newpc \in {"done", "raised"}
      THEN Append(history, [trace |-> Routines(newlog),
                            outcome |-> IF newpc = "done" THEN "returned" ELSE "raised"])
      ELSE history

\* The statement `routine(arg)` at position `at`, followed by position `next`.
Invoke(at, routine, arg, next) ==
    /\ pc = at
    /\ \E out \in Outcomes : \E w \in Effects(arg) :
         LET newlog == Append(log, [routine |-> routine, arg |-> arg])
             after  == IF out.kind = "return"
                         THEN [pc |-> next, exc |-> exc]
                         ELSE OnRaise(out.err, next)
         IN /\ log' = newlog
            /\ invocations' = Append(invocations, routine)
            /\ nexus' = w.nexus
            /\ heap' = w.heap
            /\ rets' = IF out.kind = "return" THEN Append(rets, out.val) ELSE rets
            /\ fault' = IF out.kind = "raise" /\ fault = <<>>
                          THEN <<[step |-> routine, err |-> out.err]>> ELSE fault
            /\ pc' = after.pc
            /\ exc' = after.exc
            /\ history' = Record(after.pc, newlog)
            /\ UNCHANGED <<results, retval, reads, entry_base, sitevars>>

\* The caller sets up a nexus and calls plot_mission(nexus).
plot_mission ==
    /\ pc \in {"idle", "done", "raised"}
    /\ Len(history) < MaxCalls
    /\ \E b \in {<<>>} \cup {<<o>> : o \in Objs} : \E h \in [Objs -> Contents] :
         /\ nexus' = [base |-> b]
         /\ heap' = h
         /\ entry_base' = b
    /\ pc' = "read"
    /\ results' = <<>>
    /\ log' = <<>>
    /\ rets' = <<>>
    /\ exc' = <<>>
    /\ retval' = <<>>
    /\ fault' = <<>>
    /\ reads' = 0
    /\ UNCHANGED <<history, invocations, sitevars>>

\* results = nexus.results.base
ReadResults ==
    /\ pc = "read"
    /\ reads' = reads + 1
    /\ IF nexus.base # <<>>
         THEN /\ results' = nexus.base
              /\ pc' = "aero"
              /\ UNCHANGED <<exc, fault, history>>
         ELSE /\ pc' = "raised"
              /\ exc' = <<AttributeError>>
              /\ fault' = <<[step |-> "read", err |-> AttributeError]>>
              /\ history' = Record("raised", log)
              /\ UNCHANGED results
    /\ UNCHANGED <<nexus, heap, log, rets, retval, entry_base, invocations, sitevars>>

\* plot_aerodynamic_coefficients(results)
plot_aerodynamic_coefficients ==
    Invoke("aero", "plot_aerodynamic_coefficients", results[1], "drag")

\* Mutant: the drag plot is left out.
plot_drag_components_skipped ==
    /\ pc = "drag"
    /\ pc' = "alt"
    /\ UNCHANGED <<nexus, heap, results, log, rets, exc, retval, fault, reads,
                   entry_base, history, invocations, sitevars>>

\* Mutant: the argument is evaluated again, plot_drag_components(nexus.results.base).
plot_drag_components_reread ==
    Invoke("drag", "plot_drag_components",
           IF nexus.base # <<>> THEN nexus.base[1] ELSE results[1], "alt")

\* Mutant: the drag plot is drawn only for a results object whose content is FALSE.
plot_drag_components_branching ==
    /\ pc = "drag"
    /\ IF ~heap[results[1]]
         THEN Invoke("drag", "plot_drag_components", results[1], "alt")
         ELSE plot_drag_components_skipped

\* plot_drag_components(results)
plot_drag_components ==
    Invoke("drag", "plot_drag_components", results[1], "alt")

\* plot_altitude_sfc_weight(results)
plot_altitude_sfc_weight ==
    Invoke("alt", "plot_altitude_sfc_weight", results[1], "ret")

\* Mutant: the function waits before returning and never gets there.
ReturnBlocked ==
    /\ pc = "ret"
    /\ UNCHANGED vars

\* return
Return ==
    /\ pc = "ret"
    /\ pc' = "done"
    /\ retval' = <<ReturnValue(rets)>>
    /\ history' = Record("done", log)
    /\ UNCHANGED <<nexus, heap, results, log, rets, exc, fault, reads,
                   entry_base, invocations, sitevars>>

Init ==
    /\ pc = "idle"
    /\ nexus = [base |-> <<>>]
    /\ heap = [o \in Objs |-> FALSE]
    /\ results = <<>>
    /\ log = <<>>
    /\ rets = <<>>
    /\ exc = <<>>
    /\ retval = <<>>
    /\ fault = <<>>
    /\ reads = 0
    /\ entry_base = <<>>
    /\ history = <<>>
    /\ invocations = <<>>
    /\ page = 0
    /\ target = <<>>
    /\ visited = {}

Next ==
    \/ plot_mission
    \/ ReadResults
    \/ plot_aerodynamic_coefficients
    \/ plot_drag_components
    \/ plot_altitude_sfc_weight
    \/ Return

Spec == Init /\ [][Next]_vars

\* The call's own steps are always taken: no step of plot_mission waits, and
\* every external step it makes is assumed to terminate.
FairSpec ==
    Spec /\ WF_vars(ReadResults \/ plot_aerodynamic_coefficients
                    \/ plot_drag_components \/ plot_altitude_sfc_weight \/ Return)

\* ------------------------------------------------- tutorial index pages
\* A path is the sequence of its parts: directory, file name and, for a
\* link, the suffix.

\* Visible links of missions.rst (the commented-out sample link is not one).
missions_links ==
    << <<"Missions", "Tutorial_01_turbofan_aircraft", ".html">>,
       <<"Missions", "Tutorial_02_turbojet_aircraft", ".html">>,
       <<"Missions", "Tutorial_03_turboprop_aircraft", ".html">>,
       <<"Missions", "Tutorial_04_general_aviation_aircraft", ".html">>,
       <<"Missions", "Tutorial_05_electric_aircraft", ".html">>,
       <<"Missions", "Tutorial_06_tiltrotor_evtol_aircraft", ".html">>,
       <<"Missions", "Tutorial_07_lift_cruise_evtol_aircraft", ".html">>,
       <<"Missions", "Tutorial_08_tilt_stopped_rotor_vtail_evtol_aircraft", ".html">>,
       <<"Missions", "Tutorial_09_tilt_stopped_rotor_evtol_aircraft", ".html">> >>

\* Entries of the toctree of missions.rst.
missions_toctree ==
    << <<"Missions", "Tutorial_01_turbofan_aircraft">>,
       <<"Missions", "Tutorial_02_turbojet_aircraft">>,
       <<"Missions", "Tutorial_03_turboprop_aircraft">>,
       <<"Missions", "Tutorial_04_general_aviation_aircraft">>,
       <<"Missions", "Tutorial_05_electric_aircraft">>,
       <<"Missions", "Tutorial_06_tiltrotor_evtol_aircraft">>,
       <<"Missions", "Tutorial_07_lift_cruise_evtol_aircraft">>,
       <<"Missions", "Tutorial_08_tilt_stopped_rotor_vtail_evtol_aircraft">>,
       <<"Missions", "Tutorial_09_tilt_stopped_rotor_evtol_aircraft">> >>

\* Visible links of optimization.rst.
optimization_links ==
    << <<"Optimization", "Tutorial_10_Analyses", ".html">>,
       <<"Optimization", "Tutorial_11_Missions", ".html">>,
       <<"Optimization", "Tutorial_12_Optimize", ".html">>,
       <<"Optimization", "Tutorial_13_Plot_Mission", ".html">>,
       <<"Optimization", "Tutorial_14_Procedure", ".html">>,
       <<"Optimization", "Tutorial_15_Vehicle", ".html">> >>

\* Entries of the toctree of optimization.rst.
optimization_toctree ==
    << <<"Optimize", "Tutorial_10_Analyses">>,
       <<"Optimize", "Tutorial_11_Missions">>,
       <<"Optimize", "Tutorial_12_Optimize">>,
       <<"Optimize", "Tutorial_13_Plot_Mission">>,
       <<"Optimize", "Tutorial_14_Procedure">>,
       <<"Optimize", "Tutorial_15_Vehicle">> >>

IndexPages ==
    << [name |-> "missions.rst", links |-> missions_links,
        toctree |-> missions_toctree],
       [name |-> "optimization.rst", links |-> optimization_links,
        toctree |-> optimization_toctree] >>

\* An href with its .html suffix removed.
StripHtml(href) ==
    IF Len(href) > 0 /\ href[Len(href)] = ".html"
      THEN SubSeq(href, 1, Len(href) - 1)
      ELSE href

\* A reader opens one of the index pages.
OpenPage ==
    /\ \E p \in 1..Len(IndexPages) :
         /\ p # page
         /\ page' = p
    /\ target' = <<>>
    /\ visited' = {}
    /\ UNCHANGED callvars

\* The reader follows one of the links of the open page: the browser asks
\* for the href as it is written.
FollowLink ==
    /\ page # 0
    /\ \E i \in 1..Len(IndexPages[page].links) :
         /\ target' = <<IndexPages[page].links[i]>>
         /\ visited' = visited \cup {i}
    /\ UNCHANGED <<page, callvars>>

SiteNext ==
    \/ OpenPage
    \/ FollowLink

SiteSpec == Init /\ [][SiteNext]_vars

\* ------------------------------------------------------------- properties

ThreePlots == <<"plot_aerodynamic_coefficients", "plot_drag_components",
                "plot_altitude_sfc_weight">>

\* C1: a call of plot_mission that completes normally has invoked exactly
\* plot_aerodynamic_coefficients, plot_drag_components and
\* plot_altitude_sfc_weight, once each, in that order, and nothing else.
C1_FixedOrder ==
    /\ pc = "done" => Routines(log) = ThreePlots
    /\ \A i \in 1..Len(history) :
         history[i].outcome = "returned" => history[i].trace = ThreePlots

C1_Witness ==
    /\ pc = "done"
    /\ Len(log) = 3
    /\ Len(history) = MaxCalls

\* C2: nexus.results.base is evaluated once, first; every plotting routine
\* receives the object it referred to then; and the steps of plot_mission
\* other than the plotting routines leave nexus and the results objects alone.
C2_ArgsOK ==
    /\ reads <= 1
    /\ pc \in {"aero", "drag", "alt", "ret", "done"} =>
         (reads = 1 /\ results = entry_base /\ results # <<>>)
    /\ \A i \in 1..Len(log) : <<log[i].arg>> = entry_base

C2_Frame ==
    pc \in {"read", "ret"} => UNCHANGED <<nexus, heap>>

C2_SameObject == [](C2_ArgsOK) /\ [][C2_Frame]_vars

C2_Witness ==
    /\ pc = "done"
    /\ Len(log) = 3
    /\ nexus.base # entry_base
    /\ \E o \in Objs : heap[o]

\* C3: a failure of the read or of a plotting routine ends the call with that
\* very failure, never with a normal return; a call whose steps all succeed
\* ends with no failure.
C3_Propagates ==
    /\ fault # <<>> => (pc = "raised" /\ exc = <<fault[1].err>>)
    /\ pc = "raised" => fault # <<>>
    /\ pc = "done" => (fault = <<>> /\ exc = <<>>)

C3_Witness ==
    /\ pc = "raised"
    /\ fault # <<>>
    /\ fault[1].step = "plot_drag_components"
    /\ fault[1].err = <<"PlotError", NumFailures>>

\* C4: the routines a successful call invokes depend neither on the results
\* object nor on earlier calls: all successful calls of a behaviour have the
\* same trace, and when every call so far succeeded the invocations made since
\* the start are that trace repeated once per call.
RECURSIVE Repeat(_, _)
Repeat(t, n) == IF n = 0 THEN <<>> ELSE t \o Repeat(t, n - 1)

C4_Stateless ==
    /\ \A i, j \in 1..Len(history) :
         (history[i].outcome = "returned" /\ history[j].outcome = "returned")
            => history[i].trace = history[j].trace
    /\ (Ended /\ \A i \in 1..Len(history) : history[i].outcome = "returned")
         => invocations = Repeat(history[1].trace, Len(history))

C4_Witness ==
    /\ pc = "done"
    /\ Len(history) = MaxCalls
    /\ \A i \in 1..Len(history) : history[i].outcome = "returned"
    /\ \E o \in Objs : heap[o]

\* C5: when a call fails at a step, the steps before it have been carried out
\* and no later step is invoked: a failed read leaves every plotting routine
\* uncalled, a failed plotting routine is the last one invoked.
C5_FailStops ==
    fault # <<>> =>
      /\ fault[1].step = "read" => (Routines(log) = <<>> /\ results = <<>>)
      /\ fault[1].step = "plot_aerodynamic_coefficients" =>
           (Routines(log) = <<"plot_aerodynamic_coefficients">> /\ results # <<>>)
      /\ fault[1].step = "plot_drag_components" =>
           (Routines(log) = <<"plot_aerodynamic_coefficients", "plot_drag_components">>
            /\ results # <<>>)
      /\ fault[1].step = "plot_altitude_sfc_weight" =>
           (Routines(log) = ThreePlots /\ results # <<>>)

C5_Witness ==
    /\ fault # <<>>
    /\ fault[1].step = "plot_aerodynamic_coefficients"
    /\ pc = "raised"
    /\ Len(history) = MaxCalls

\* C6: a call that completes normally returns None, whatever the plotting
\* routines returned.
C6_ReturnsNone ==
    pc = "done" => retval = <<None>>

C6_Witness ==
    /\ pc = "done"
    /\ Len(rets) = 3
    /\ rets[3] # None

\* C7: every call of plot_mission ends, and makes at most three invocations.
C7_Terminates ==
    /\ [](Len(log) <= 3)
    /\ (Running ~> Ended)

C7_Witness ==
    /\ Ended
    /\ Len(history) = MaxCalls
    /\ Len(log) = 3

\* C8: on each tutorial index page (here: the one that is open) the links and
\* the toctree describe the same pages in the same order: every href without its .html suffix is a
\* toctree entry of the page, and every toctree entry is the target of exactly
\* one link.
C8_LinksMatchToctree ==
    \A p \in 1..Len(IndexPages) : p = page =>
      LET links == IndexPages[p].links
          toc   == IndexPages[p].toctree
      IN /\ Len(links) = Len(toc)
         /\ \A i \in 1..Len(links) : StripHtml(links[i]) = toc[i]
         /\ \A i \in 1..Len(links) :
              \E k \in 1..Len(toc) : StripHtml(links[i]) = toc[k]
         /\ \A k \in 1..Len(toc) :
              Cardinality({i \in 1..Len(links) : StripHtml(links[i]) = toc[k]}) = 1

====
